---- MODULE Spec2Model ----
(***************************************************************************)
(* x-arraysearch (src/src/index.ts): searchData filters a collection by    *)
(* matching every item against a term, either over all values flattened    *)
(* from the item or over the values found at a list of dot-notated paths,  *)
(* with a process-wide path cache and a chunked "parallel" mode.           *)
(*                                                                         *)
(* Text is a sequence of one-character strings, so that String(),          *)
(* toLowerCase(), includes(), split('.') and endsWith('[]') are computed   *)
(* character by character.  JavaScript objects and arrays live in a heap   *)
(* and are referred to by identity, so that an object graph may be cyclic. *)
(***************************************************************************)
EXTENDS Integers, Sequences, FiniteSets, TLC

VARIABLES
  pathCache,   \* the module-level Map<string, string[]> (index.ts:88)
  pc,          \* where the caller of searchData stands
  call,        \* the arguments of the searchData call last made
  outcome,     \* what that call produced: a value, a promise or an exception
  trace,       \* the path resolutions and matcher calls of that call, in order
  chunks,      \* the slices that call cut the collection into (index.ts:140)
  tpc,         \* stepwise traversal: position of the serial search
  tcall,       \* stepwise traversal: the arguments of the search
  tidx,        \* stepwise traversal: index of the item being matched
  tstack,      \* stepwise traversal: the frames of flattenObject / flatten
  tout,        \* stepwise traversal: the values flattened from the item so far
  tresult,     \* stepwise traversal: the items kept by filter so far
  mcall,       \* the direct call of defaultMatcher last made, with its result
  coll,        \* parallel calls step by step: the caller's collection
  jobs,        \* parallel calls step by step: the calls made, in call order
  running,     \* parallel calls step by step: the call on the stack, 0 for none
  log          \* parallel calls step by step: the chunk filters run, in time order

vars == <<pathCache, pc, call, outcome, trace, chunks, tpc, tcall, tidx, tstack, tout,
          tresult, mcall, coll, jobs, running, log>>

searchVars    == <<pathCache, pc, call, outcome, trace, chunks>>
traversalVars == <<tpc, tcall, tidx, tstack, tout, tresult>>
parallelVars  == <<coll, jobs, running, log>>

-----------------------------------------------------------------------------
(* JavaScript values.  A primitive carries its own content; an object or   *)
(* an array is a reference into Heap; List is an array created during a    *)
(* call (the result of flat, flatMap or slice), which has no identity the  *)
(* program ever compares.                                                  *)

Str(s)  == [t |-> "str", s |-> s]
Num(n)  == [t |-> "num", n |-> n]
Bool(b) == [t |-> "bool", b |-> b]
Null    == [t |-> "null"]
Undef   == [t |-> "undef"]
Ref(id) == [t |-> "ref", id |-> id]
List(e) == [t |-> "list", e |-> e]
\* The completion of an expression that threw (a TypeError on null or undefined).
Throw   == [t |-> "throw"]

(* The object graph the collections are drawn from.  Property order is     *)
(* insertion order (no integer-like keys are used).                        *)
(*   1: {k: [{f: "a"}, {f: "b"}]}          the record of README "orders[]" *)
(*   5: x = {n: "Ab", s: x}                a self-referential object       *)
(*   6: {a: {b: {c: "x"}}}                 three levels, leaf on level 3   *)
(*   9: {f: 123, g: null, t: ["Ab", ["x"]]}                                *)
(*  12: {a: {b: {c: "y"}, d: "x"}}         three levels, leaf on level 2   *)
(*  15: {a: {b: ["x"]}}                    three levels, array on level 2  *)
Obj(keys, vals) == [kind |-> "obj", keys |-> keys, vals |-> vals]
Arr(vals)       == [kind |-> "arr", keys |-> <<>>, vals |-> vals]

Heap ==
  <<Obj(<< <<"k">> >>, <<Ref(2)>>),
    Arr(<<Ref(3), Ref(4)>>),
    Obj(<< <<"f">> >>, <<Str(<<"a">>)>>),
    Obj(<< <<"f">> >>, <<Str(<<"b">>)>>),
    Obj(<< <<"n">>, <<"s">> >>, <<Str(<<"A", "b">>), Ref(5)>>),
    Obj(<< <<"a">> >>, <<Ref(7)>>),
    Obj(<< <<"b">> >>, <<Ref(8)>>),
    Obj(<< <<"c">> >>, <<Str(<<"x">>)>>),
    Obj(<< <<"f">>, <<"g">>, <<"t">> >>, <<Num(123), Null, Ref(10)>>),
    Arr(<<Str(<<"A", "b">>), Ref(11)>>),
    Arr(<<Str(<<"x">>)>>),
    Obj(<< <<"a">> >>, <<Ref(13)>>),
    Obj(<< <<"b">>, <<"d">> >>, <<Ref(14), Str(<<"x">>)>>),
    Obj(<< <<"c">> >>, <<Str(<<"y">>)>>),
    Obj(<< <<"a">> >>, <<Ref(16)>>),
    Obj(<< <<"b">> >>, <<Ref(11)>>)>>

IsRef(v)     == v.t = "ref"
IsHeapArr(v) == IsRef(v) /\ Heap[v.id].kind = "arr"
IsHeapObj(v) == IsRef(v) /\ Heap[v.id].kind = "obj"

\* Array.isArray(v)
IsArray(v) == v.t = "list" \/ IsHeapArr(v)

\* The elements of an array value.
Elems(v) == IF v.t = "list" THEN v.e ELSE Heap[v.id].vals

-----------------------------------------------------------------------------
(* Text: String(), toLowerCase(), includes().                              *)

Digits == <<"0", "1", "2", "3", "4", "5", "6", "7", "8", "9">>

RECURSIVE NatText(_)
NatText(n) == IF n < 10 THEN <<Digits[n + 1]>>
              ELSE NatText(n \div 10) \o <<Digits[(n % 10) + 1]>>

\* Number::toString of an integer.
NumText(n) == IF n < 0 THEN <<"-">> \o NatText(0 - n) ELSE NatText(n)

NullText      == <<"n", "u", "l", "l">>
UndefinedText == <<"u", "n", "d", "e", "f", "i", "n", "e", "d">>
TrueText      == <<"t", "r", "u", "e">>
FalseText     == <<"f", "a", "l", "s", "e">>
ObjectText    == <<"[", "o", "b", "j", "e", "c", "t", " ", "O", "b", "j", "e", "c", "t", "]">>

(* String(v).  An object gives "[object Object]"; an array gives its       *)
(* elements' texts joined by ",", null and undefined elements giving "".   *)
(* (No array of Heap contains itself, so join needs no cycle guard.)       *)
RECURSIVE ToText(_), JoinText(_, _)
ToText(v) ==
  CASE v.t = "str"   -> v.s
    [] v.t = "num"   -> NumText(v.n)
    [] v.t = "bool"  -> IF v.b THEN TrueText ELSE FalseText
    [] v.t = "null"  -> NullText
    [] v.t = "undef" -> UndefinedText
    [] IsArray(v)    -> JoinText(Elems(v), 1)
    [] OTHER         -> ObjectText
JoinText(e, i) ==
  IF i > Len(e) THEN <<>>
  ELSE (IF e[i].t \in {"null", "undef"} THEN <<>> ELSE ToText(e[i]))
       \o (IF i < Len(e) THEN <<",">> \o JoinText(e, i + 1) ELSE <<>>)

\* The upper-case letters of the model's alphabet, with their lower case.
LowerCase == [A |-> "a", B |-> "b", L |-> "l", N |-> "n", O |-> "o", U |-> "u", X |-> "x"]

LowerChar(c) == IF c \in DOMAIN LowerCase THEN LowerCase[c] ELSE c

\* String.prototype.toLowerCase
toLowerCase(s) == [i \in 1..Len(s) |-> LowerChar(s[i])]

\* String.prototype.includes: some position at which t starts in s.
includes(s, t) == \E k \in 0..(Len(s) - Len(t)) : SubSeq(s, k + 1, k + Len(t)) = t

-----------------------------------------------------------------------------
(* Matchers.                                                               *)

\* The mutant of defaultMatcher that forgets to lower-case the term.
defaultMatcherTermCase(value, term) ==
  includes(toLowerCase(ToText(value)), ToText(term))

defaultMatcher(value, term) ==
  LET strValue == toLowerCase(ToText(value))
      strTerm  == toLowerCase(ToText(term))
  IN  includes(strValue, strTerm)

\* value === term: primitives by type and content, objects by identity.
exactMatcher(value, term) == value = term

customMatch(m, value, term) ==
  IF m = "exact" THEN exactMatcher(value, term) ELSE defaultMatcher(value, term)

-----------------------------------------------------------------------------
(* Property access and the array methods the resolvers use.                *)

IndexOf(seq, x) == IF \E i \in 1..Len(seq) : seq[i] = x
                   THEN CHOOSE i \in 1..Len(seq) : seq[i] = x
                   ELSE 0

LengthKey == <<"l", "e", "n", "g", "t", "h">>

(* The position of the own element a key names in an array or a string of  *)
(* n elements, 0 when it names none: the key is a canonical index.  Every  *)
(* array and string of the model is shorter than ten, so an index of two   *)
(* digits or more is past the end.                                         *)
ElementAt(n, key) ==
  IF Len(key) = 1 /\ IndexOf(Digits, key[1]) \in 1..n
  THEN IndexOf(Digits, key[1])
  ELSE 0

(* v[key].  Reading a property of null or undefined throws a TypeError; a  *)
(* missing property is undefined.  (Inherited properties other than        *)
(* length are not modelled.)                                               *)
GetProp(v, key) ==
  CASE v.t \in {"null", "undef"} -> Throw
    [] IsHeapObj(v) ->
         IF IndexOf(Heap[v.id].keys, key) > 0
         THEN Heap[v.id].vals[IndexOf(Heap[v.id].keys, key)]
         ELSE Undef
    [] IsArray(v) ->
         IF key = LengthKey THEN Num(Len(Elems(v)))
         ELSE IF ElementAt(Len(Elems(v)), key) > 0
              THEN Elems(v)[ElementAt(Len(Elems(v)), key)]
              ELSE Undef
    [] v.t = "str" ->
         IF key = LengthKey THEN Num(Len(v.s))
         ELSE IF ElementAt(Len(v.s), key) > 0
              THEN Str(<<v.s[ElementAt(Len(v.s), key)]>>)
              ELSE Undef
    [] OTHER -> Undef

\* path.split('.'): the segments between the dots, empty ones included.
RECURSIVE SplitFrom(_, _, _)
SplitFrom(path, i, seg) ==
  IF i > Len(path) THEN <<seg>>
  ELSE IF path[i] = "." THEN <<seg>> \o SplitFrom(path, i + 1, <<>>)
  ELSE SplitFrom(path, i + 1, Append(seg, path[i]))

Split(path) == SplitFrom(path, 1, <<>>)

\* segment.endsWith('[]')
EndsWithMarker(segment) ==
  Len(segment) >= 2 /\ SubSeq(segment, Len(segment) - 1, Len(segment)) = <<"[", "]">>

\* segment.slice(0, -2)
StripMarker(segment) == SubSeq(segment, 1, Len(segment) - 2)

(* Array.prototype.flat(depth) on the elements e[lo..hi], in index order.   *)
(* (The range is halved only to keep the evaluation shallow.)              *)
RECURSIVE FlatRange(_, _, _, _)
FlatRange(e, lo, hi, depth) ==
  IF lo > hi THEN <<>>
  ELSE IF lo = hi
  THEN (IF depth > 0 /\ IsArray(e[lo])
        THEN FlatRange(Elems(e[lo]), 1, Len(Elems(e[lo])), depth - 1)
        ELSE <<e[lo]>>)
  ELSE FlatRange(e, lo, (lo + hi) \div 2, depth)
         \o FlatRange(e, ((lo + hi) \div 2) + 1, hi, depth)

\* Array.prototype.flat(depth) on the elements e.
Flat(e, depth) == FlatRange(e, 1, Len(e), depth)

\* The callback item => item[key] applied to the elements e, in order.
MapProp(e, key) == [i \in 1..Len(e) |-> GetProp(e[i], key)]

Throws(e) == \E i \in 1..Len(e) : e[i] = Throw

\* current.flatMap(item => item[key]): Throw when the callback throws.
FlatMapProp(current, key) ==
  CHOOSE r \in {IF Throws(mapped) THEN Throw ELSE List(Flat(mapped, 1)) :
                  mapped \in {MapProp(Elems(current), key)}} : TRUE

\* seq.filter(v => v !== undefined)
RECURSIVE DropUndefined(_)
DropUndefined(e) ==
  IF e = <<>> THEN <<>>
  ELSE (IF Head(e) = Undef THEN <<>> ELSE <<Head(e)>>) \o DropUndefined(Tail(e))

-----------------------------------------------------------------------------
(* getNestedValue (index.ts:265-305).                                      *)

\* What the loop over the segments ends with: the current value to collect
\* from, or no value at all (return [] in the loop, or the catch clause).
NoValues    == [done |-> TRUE, cur |-> Undef]
Walked(cur) == [done |-> FALSE, cur |-> cur]

\* The array-expansion branch of one segment (index.ts:278-285).
\* Undef stands for the return [] of its else branch.
NestedExpand(current, key) ==
  IF IsArray(current) THEN FlatMapProp(current, key)
  ELSE CHOOSE r \in {IF p = Throw THEN Throw
                     ELSE IF IsArray(p) THEN p
                     ELSE Undef : p \in {GetProp(current, key)}} : TRUE

\* The plain branch of one segment (index.ts:287-291).
NestedRead(current, segment) ==
  CHOOSE r \in {IF next = Throw \/ next = Undef THEN next
                ELSE IF IsArray(next) THEN List(Flat(Elems(next), 1))
                ELSE next : next \in {GetProp(current, segment)}} : TRUE

\* One iteration of the loop: the new current, Throw, or Undef for return [].
NestedStep(current, segment) ==
  IF EndsWithMarker(segment) THEN NestedExpand(current, StripMarker(segment))
  ELSE NestedRead(current, segment)

RECURSIVE NestedWalk(_, _, _)
NestedWalk(segments, i, current) ==
  IF i > Len(segments) THEN Walked(current)
  ELSE CHOOSE w \in {IF next = Throw \/ next = Undef THEN NoValues
                     ELSE NestedWalk(segments, i + 1, next) :
                     next \in {NestedStep(current, segments[i])}} : TRUE

getNestedValue(obj, path, depth) ==
  CHOOSE results \in {IF w.done THEN <<>>
                      ELSE IF IsArray(w.cur) THEN DropUndefined(Flat(Elems(w.cur), depth))
                      ELSE DropUndefined(<<w.cur>>) :
                      w \in {NestedWalk(Split(path), 1, obj)}} : TRUE

-----------------------------------------------------------------------------
(* getValueByPath (index.ts:229-247).                                      *)

RECURSIVE ByPathWalk(_, _, _)
ByPathWalk(segments, i, current) ==
  IF i > Len(segments) THEN current
  ELSE IF EndsWithMarker(segments[i]) /\ IsArray(current)
  THEN CHOOSE v \in {IF r = Throw THEN Undef ELSE r :
                     r \in {FlatMapProp(current, StripMarker(segments[i]))}} : TRUE
  ELSE CHOOSE v \in {IF next = Throw \/ next = Undef THEN Undef
                     ELSE ByPathWalk(segments, i + 1, next) :
                     next \in {GetProp(current, segments[i])}} : TRUE

getValueByPath(obj, path) == ByPathWalk(Split(path), 1, obj)

-----------------------------------------------------------------------------
(* flattenObject / flatten / isFlattenable (index.ts:315-341).             *)

\* typeof value === 'object' && value !== null
isFlattenable(value) == value.t \in {"ref", "list"}

\* Object.values(value): an object's property values, an array's elements.
ObjectValues(value) == Elems(value)

\* The mutant of ChildDepth that hands the budget on undiminished.
ChildDepthKept(depth) == depth

\* The depth budget flatten hands to the values of the value it expands.
ChildDepth(depth) == depth - 1

RECURSIVE flatten(_, _), flattenAll(_, _)

\* The mutant of flatten that stops one level early.
flattenShallow(value, depth) ==
  IF depth <= 1 \/ ~isFlattenable(value) THEN <<value>>
  ELSE flattenAll(ObjectValues(value), ChildDepth(depth))

flatten(value, depth) ==
  IF depth <= 0 \/ ~isFlattenable(value) THEN <<value>>
  ELSE flattenAll(ObjectValues(value), ChildDepth(depth))
\* values.flatMap(v => flatten(v, depth))
flattenAll(values, depth) ==
  IF values = <<>> THEN <<>>
  ELSE flatten(Head(values), depth) \o flattenAll(Tail(values), depth)

\* The mutant of flattenObject that counts the item itself as a level.
flattenObjectSpent(obj, depth) == flattenAll(ObjectValues(obj), ChildDepth(depth))

flattenObject(obj, depth) == flattenAll(ObjectValues(obj), depth)

-----------------------------------------------------------------------------
(* matchItem (index.ts:175-207).                                           *)

\* A field of SearchOptions: left out of the bundle, or set to a value.
Unset  == [given |-> FALSE]
Set(v) == [given |-> TRUE, v |-> v]

\* Destructuring with a default (index.ts:129-135).
OrDefault(option, default) == IF option.given THEN option.v ELSE default

\* The positions of the values the matcher accepts.
Accepted(values, m, term) == {i \in 1..Len(values) : customMatch(m, values[i], term)}

(* One entry of the trace: values.some(value => customMatch(value, term))  *)
(* on the values one step of matchItem resolved.  some calls the matcher   *)
(* on the values in order and stops at the first one accepted.             *)
Event(item, how, path, values, m, term) ==
  CHOOSE ev \in {[item |-> item, how |-> how, path |-> path, values |-> values,
                  calls |-> IF hits = {} THEN Len(values)
                            ELSE CHOOSE i \in hits : \A j \in hits : i <= j,
                  accepted |-> hits # {}] :
                 hits \in {Accepted(values, m, term)}} : TRUE

\* cached.map(p => getValueByPath(item, p)).flat()
CachedValues(item, cached) ==
  Flat([i \in 1..Len(cached) |-> getValueByPath(item, cached[i])], 1)

\* The values of one path, as the callback of keys.some resolves them.
PathValues(item, path, maxDepth, enablePathCache, cache) ==
  IF enablePathCache /\ path \in DOMAIN cache
  THEN CachedValues(item, cache[path])
  ELSE getNestedValue(item, path, maxDepth)

\* The mutant of PathCached whose insertion evicts every other entry.
PathCachedEvicts(path, enablePathCache, cache) ==
  IF enablePathCache /\ path \notin DOMAIN cache
  THEN [p \in {path} |-> <<path>>]
  ELSE cache

\* pathCache after that resolution: a miss with caching enabled sets [path].
PathCached(path, enablePathCache, cache) ==
  IF enablePathCache /\ path \notin DOMAIN cache
  THEN [p \in DOMAIN cache \cup {path} |-> IF p = path THEN <<path>> ELSE cache[p]]
  ELSE cache

PathHow(path, enablePathCache, cache) ==
  IF ~enablePathCache THEN "direct"
  ELSE IF path \in DOMAIN cache THEN "hit" ELSE "miss"

Matched(match, cache, events) == [match |-> match, cache |-> cache, events |-> events]

\* The mutant of MatchPaths that resolves every path, accepted or not.
RECURSIVE MatchPathsAll(_, _, _, _, _, _, _, _)
MatchPathsAll(item, term, list, i, m, maxDepth, enablePathCache, cache) ==
  IF i > Len(list) THEN Matched(FALSE, cache, <<>>)
  ELSE CHOOSE r \in
         {Matched(ev.accepted \/ rest.match, rest.cache, <<ev>> \o rest.events) :
          ev \in {Event(item, PathHow(list[i], enablePathCache, cache), list[i],
                        PathValues(item, list[i], maxDepth, enablePathCache, cache),
                        m, term)},
          rest \in {MatchPathsAll(item, term, list, i + 1, m, maxDepth, enablePathCache,
                                  PathCached(list[i], enablePathCache, cache))}} : TRUE

\* keys.some(path => ...) from the i-th path on.
RECURSIVE MatchPaths(_, _, _, _, _, _, _, _)
MatchPaths(item, term, list, i, m, maxDepth, enablePathCache, cache) ==
  IF i > Len(list) THEN Matched(FALSE, cache, <<>>)
  ELSE CHOOSE r \in
         {IF ev.accepted THEN Matched(TRUE, cache1, <<ev>>)
          ELSE CHOOSE q \in {Matched(rest.match, rest.cache, <<ev>> \o rest.events) :
                             rest \in {MatchPaths(item, term, list, i + 1, m, maxDepth,
                                                  enablePathCache, cache1)}} : TRUE :
          ev \in {Event(item, PathHow(list[i], enablePathCache, cache), list[i],
                        PathValues(item, list[i], maxDepth, enablePathCache, cache),
                        m, term)},
          cache1 \in {PathCached(list[i], enablePathCache, cache)}} : TRUE

matchItem(item, term, keys, m, maxDepth, enablePathCache, cache) ==
  IF ~isFlattenable(item)
  THEN Matched(customMatch(m, item, term), cache,
               <<Event(item, "item", <<>>, <<item>>, m, term)>>)
  ELSE IF ~keys.given \/ Len(keys.v) = 0
  THEN CHOOSE r \in {Matched(ev.accepted, cache, <<ev>>) :
                     ev \in {Event(item, "flatten", <<>>, flattenObject(item, maxDepth),
                                   m, term)}} : TRUE
  ELSE MatchPaths(item, term, keys.v, 1, m, maxDepth, enablePathCache, cache)

-----------------------------------------------------------------------------
(* searchData (index.ts:124-161).                                          *)

DEFAULT_MAX_DEPTH == 10

\* data.length > 1000 (index.ts:138)
ParallelThreshold == 1000

\* Math.ceil(data.length / 4) (index.ts:139)
ChunkCount == 4

(* The data argument: an array, or one of the values a caller may pass in  *)
(* its place.  A string and a typed array have length and slice; only an   *)
(* array and a typed array have filter.                                    *)
Data(kind, items) == [kind |-> kind, items |-> items]

HasLength(data) == data.kind \in {"array", "string", "typed"}
HasFilter(data) == data.kind \in {"array", "typed"}
IsNullish(data) == data.kind \in {"null", "undefined"}

\* The mutant of CeilDiv that rounds down.
CeilDivFloor(a, b) == a \div b

\* Math.ceil(a / b) for a >= 0, b > 0
CeilDiv(a, b) == (a + b - 1) \div b

Filtered(out, cache, events) == [out |-> out, cache |-> cache, events |-> events]

(* items.filter(item => matchItem(item, ...)) over items[lo..hi], in index *)
(* order, the path cache handed from each call of matchItem to the next.   *)
(* (The range is halved only to keep the evaluation shallow: the left half *)
(* is filtered first and its cache is what the right half starts from.)    *)
RECURSIVE FilterRange(_, _, _, _, _, _, _, _, _)
FilterRange(items, lo, hi, term, keys, m, maxDepth, enablePathCache, cache) ==
  IF lo > hi THEN Filtered(<<>>, cache, <<>>)
  ELSE IF lo = hi
  THEN CHOOSE f \in {Filtered(IF r.match THEN <<items[lo]>> ELSE <<>>, r.cache, r.events) :
                     r \in {matchItem(items[lo], term, keys, m, maxDepth, enablePathCache,
                                      cache)}} : TRUE
  ELSE CHOOSE f \in
         {CHOOSE g \in {Filtered(left.out \o right.out, right.cache,
                                 left.events \o right.events) :
                        right \in {FilterRange(items, ((lo + hi) \div 2) + 1, hi, term, keys,
                                               m, maxDepth, enablePathCache, left.cache)}} :
            TRUE :
          left \in {FilterRange(items, lo, (lo + hi) \div 2, term, keys, m, maxDepth,
                                enablePathCache, cache)}} : TRUE

\* The mutant of ChunkLo whose slices start one element late.
ChunkLoSkips(i, chunkSize) == i * chunkSize + 2

\* data.slice(i * chunkSize, (i + 1) * chunkSize) as the index range it covers.
ChunkLo(i, chunkSize) == i * chunkSize + 1
ChunkHi(i, chunkSize, n) == IF (i + 1) * chunkSize < n THEN (i + 1) * chunkSize ELSE n

\* The container filter returns: an Array for an array, a typed array for one.
Container(data, out) == IF data.kind = "array" THEN List(out) ELSE [t |-> "typed", e |-> out]

(* chunks.map(chunk => new Promise(resolve => resolve(chunk.filter(...)))) *)
(* from chunk i on: every executor runs at once, in chunk order, so each   *)
(* chunk's filter starts from the cache the chunk before it left.          *)
RECURSIVE FilterChunks(_, _, _, _, _, _, _, _, _, _)
FilterChunks(data, i, nChunks, chunkSize, term, keys, m, maxDepth, enablePathCache, cache) ==
  IF i >= nChunks THEN [results |-> <<>>, cache |-> cache, events |-> <<>>]
  ELSE CHOOSE f \in
         {CHOOSE g \in {[results |-> <<Container(data, r.out)>> \o rest.results,
                         cache   |-> rest.cache,
                         events  |-> r.events \o rest.events] :
                        rest \in {FilterChunks(data, i + 1, nChunks, chunkSize, term, keys,
                                               m, maxDepth, enablePathCache, r.cache)}} :
            TRUE :
          r \in {FilterRange(data.items, ChunkLo(i, chunkSize),
                             ChunkHi(i, chunkSize, Len(data.items)),
                             term, keys, m, maxDepth, enablePathCache, cache)}} : TRUE

\* const chunks = Array.from({length: Math.ceil(data.length / chunkSize)},
\*                           (_, i) => data.slice(i * chunkSize, (i + 1) * chunkSize))
Chunks(data) ==
  CHOOSE c \in
    {[i \in 1..CeilDiv(Len(data.items), chunkSize) |->
        SubSeq(data.items, ChunkLo(i - 1, chunkSize),
               ChunkHi(i - 1, chunkSize, Len(data.items)))] :
     chunkSize \in {CeilDiv(Len(data.items), ChunkCount)}} : TRUE

\* The serial branch cuts no slices.
NoChunks == <<>>

Returned(value, cache, events) ==
  [kind |-> "array", value |-> value, cache |-> cache, events |-> events]
Promised(settle, value, cache, events) ==
  [kind |-> "promise", settle |-> settle, value |-> value, cache |-> cache, events |-> events]
Thrown(cache) ==
  [kind |-> "throw", error |-> "TypeError", cache |-> cache, events |-> <<>>]

\* The parallel branch (index.ts:138-156).
searchParallel(data, term, keys, m, maxDepth, enablePathCache, cache) ==
  IF ~HasFilter(data)
  THEN Promised("rejected", "TypeError", cache, <<>>)
  ELSE CHOOSE p \in
         {Promised("fulfilled", List(Flat(r.results, 1)), r.cache, r.events) :
          r \in {FilterChunks(data, 0, CeilDiv(Len(data.items), chunkSize), chunkSize,
                              term, keys, m, maxDepth, enablePathCache, cache) :
                 chunkSize \in {CeilDiv(Len(data.items), ChunkCount)}}} : TRUE

\* The serial branch (index.ts:158-160).
searchSerial(data, term, keys, m, maxDepth, enablePathCache, cache) ==
  IF ~HasFilter(data) THEN Thrown(cache)
  ELSE CHOOSE v \in {Returned(Container(data, r.out), r.cache, r.events) :
                     r \in {FilterRange(data.items, 1, Len(data.items), term, keys, m,
                                        maxDepth, enablePathCache, cache)}} : TRUE

searchData(data, term, options, cache) ==
  LET keys            == options.keys
      m               == OrDefault(options.customMatch, "default")
      maxDepth        == OrDefault(options.maxDepth, DEFAULT_MAX_DEPTH)
      enablePathCache == OrDefault(options.enablePathCache, TRUE)
      parallel        == OrDefault(options.parallel, FALSE)
  IN  IF parallel /\ IsNullish(data) THEN Thrown(cache)
      ELSE IF parallel /\ HasLength(data) /\ Len(data.items) > ParallelThreshold
      THEN searchParallel(data, term, keys, m, maxDepth, enablePathCache, cache)
      ELSE searchSerial(data, term, keys, m, maxDepth, enablePathCache, cache)

\* The slices a call of searchData cuts: those of the parallel branch, if taken.
ChunksOf(data, options) ==
  IF OrDefault(options.parallel, FALSE) /\ HasLength(data)
       /\ Len(data.items) > ParallelThreshold
  THEN Chunks(data)
  ELSE NoChunks

-----------------------------------------------------------------------------
(* The inputs of the calls.                                                *)

\* The longest small collection.
MaxLen == 2

\* How far past the parallel threshold the large collections go.
MaxOver == 4

\* The largest explicit maxDepth option.
MaxDepthOption == 1

PathKF == <<"k", "[", "]", ".", "f">>
PathZY == <<"z", ".", "y">>
PathGH == <<"g", ".", "h">>
PathT  == <<"t">>

KeyLists == {<<>>, <<PathZY, PathGH, PathKF, PathT>>}

Terms == {Str(<<"a">>), Str(<<"X">>), Str(<<"u", "n", "d">>), Num(123)}

\* The items the collections are made of: records, and one primitive.
Pool == <<Ref(1), Ref(9), Ref(5), Ref(6), Ref(12), Ref(15), Str(<<"A", "b">>)>>

\* n items of Pool, taken in a cycle from the start-th on.
Window(start, n) == [i \in 1..n |-> Pool[((start + i - 2) % Len(Pool)) + 1]]

SmallData == {Data("array", Window(s, n)) : s \in 1..Len(Pool), n \in 0..MaxLen}

LargeLengths == ParallelThreshold..(ParallelThreshold + MaxOver)

LargeData == {Data("array", Window(1, n)) : n \in LargeLengths}

NonArrayData ==
  {Data("null", <<>>), Data("undefined", <<>>), Data("number", <<>>), Data("object", <<>>),
   Data("string", <<"a", "b">>), Data("typed", <<Num(1), Num(123)>>)}
  \cup {Data("string", [i \in 1..n |-> "a"]) : n \in LargeLengths}
  \cup {Data("typed", [i \in 1..(ParallelThreshold + 1) |-> Num(i % 2)])}

Options(keys, customMatchOpt, maxDepth, enablePathCache, parallel) ==
  [keys |-> keys, customMatch |-> customMatchOpt, maxDepth |-> maxDepth,
   enablePathCache |-> enablePathCache, parallel |-> parallel]

KeyOptions      == {Unset} \cup {Set(l) : l \in KeyLists}
MatchOptions    == {Unset, Set("exact")}
DepthOptions    == {Unset} \cup {Set(d) : d \in 0..MaxDepthOption}
CacheOptions    == {Unset, Set(FALSE)}
ParallelOptions == {Unset, Set(TRUE)}

SmallOptions ==
  {Options(k, m, d, c, p) : k \in KeyOptions, m \in MatchOptions, d \in DepthOptions,
                            c \in CacheOptions, p \in ParallelOptions}

LargeOptions ==
  {Options(k, Unset, Unset, c, p) : k \in KeyOptions \ {Set(<<>>)},
                                    c \in CacheOptions, p \in ParallelOptions}

LargeTerms == {Str(<<"a">>), Str(<<"u", "n", "d">>)}

-----------------------------------------------------------------------------
(* The calls of searchData.  A call runs to completion: JavaScript is      *)
(* single-threaded and searchData never yields before it returns.  In      *)
(* parallel mode it returns a promise whose settlement is delivered to the *)
(* caller in a later microtask.                                            *)

\* The collection the caller of the parallel calls holds at the start.
CallerCollection == Window(1, ParallelThreshold + 1)

EmptyCache == [p \in {} |-> <<>>]
NoCall     == [made |-> FALSE]
NoOutcome  == [kind |-> "none"]
NoTraversal == [made |-> FALSE]

Init ==
  /\ pathCache = EmptyCache
  /\ pc = "idle"
  /\ call = NoCall
  /\ outcome = NoOutcome
  /\ trace = <<>>
  /\ chunks = NoChunks
  /\ tpc = "off"
  /\ tcall = NoTraversal
  /\ tidx = 0
  /\ tstack = <<>>
  /\ tout = <<>>
  /\ tresult = <<>>
  /\ mcall = NoCall
  /\ coll = CallerCollection
  /\ jobs = <<>>
  /\ running = 0
  /\ log = <<>>

Search(data, term, options) ==
  /\ pc = "idle"
  /\ \E r \in {searchData(data, term, options, pathCache)} :
       /\ pathCache' = r.cache
       /\ trace' = r.events
       /\ outcome' = [k \in DOMAIN r \ {"cache", "events"} |-> r[k]]
       /\ pc' = CASE r.kind = "array" -> "returned"
                  [] r.kind = "promise" -> "pending"
                  [] OTHER -> "threw"
  /\ call' = [made |-> TRUE, data |-> data, term |-> term, options |-> options,
              cache |-> pathCache]
  /\ chunks' = ChunksOf(data, options)
  /\ UNCHANGED <<traversalVars, mcall, parallelVars>>

SearchSmall == \E data \in SmallData, term \in Terms, options \in SmallOptions :
                 Search(data, term, options)

SearchLarge == \E data \in LargeData, term \in LargeTerms, options \in LargeOptions :
                 Search(data, term, options)

SearchNonArray == \E data \in NonArrayData, term \in LargeTerms, p \in ParallelOptions :
                    Search(data, term, Options(Unset, Unset, Unset, Unset, p))

\* The microtask that settles the promise of a parallel call.
Deliver ==
  /\ pc = "pending"
  /\ pc' = "settled"
  /\ UNCHANGED <<pathCache, call, outcome, trace, chunks>>
  /\ UNCHANGED <<traversalVars, mcall, parallelVars>>

\* The caller is done with the result and may call again.
Resume ==
  /\ pc \in {"returned", "threw", "settled"}
  /\ pc' = "idle"
  /\ call' = NoCall
  /\ outcome' = NoOutcome
  /\ trace' = <<>>
  /\ chunks' = NoChunks
  /\ UNCHANGED pathCache
  /\ UNCHANGED <<traversalVars, mcall, parallelVars>>

Next == SearchSmall \/ SearchLarge \/ SearchNonArray \/ Deliver \/ Resume

Spec == Init /\ [][Next]_vars

-----------------------------------------------------------------------------
(* One serial, pathless search taken step by step: filter visits the items *)
(* in order, and flattenObject / flatten run on an explicit stack with one *)
(* frame per value being expanded.  A frame holds the value, the depth its *)
(* values are flattened with, and the position of the next value.          *)

\* The call stack the engine grants the recursion of flatten.
MaxStack == 16

Frame(value, depth) == [value |-> value, depth |-> depth, next |-> 1]

TraversalData == {Window(s, n) : s \in 1..Len(Pool), n \in 1..MaxLen}

TraversalTerms == {Str(<<"a">>), Str(<<"X">>)}

TDepth == OrDefault(tcall.maxDepth, DEFAULT_MAX_DEPTH)

\* searchData(items, term, {maxDepth}) is called (index.ts:158).
TBegin ==
  /\ tpc = "off"
  /\ \E items \in TraversalData, term \in TraversalTerms, maxDepth \in DepthOptions :
       tcall' = [made |-> TRUE, items |-> items, term |-> term, maxDepth |-> maxDepth]
  /\ tpc' = "filter"
  /\ tidx' = 1
  /\ UNCHANGED <<tstack, tout, tresult>>
  /\ UNCHANGED <<searchVars, mcall, parallelVars>>

\* matchItem on a primitive item (index.ts:183-185).
TMatchPrimitive ==
  /\ tpc = "filter" /\ tidx <= Len(tcall.items)
  /\ ~isFlattenable(tcall.items[tidx])
  /\ tresult' = IF defaultMatcher(tcall.items[tidx], tcall.term)
                THEN Append(tresult, tcall.items[tidx]) ELSE tresult
  /\ tidx' = tidx + 1
  /\ UNCHANGED <<tpc, tcall, tstack, tout>>
  /\ UNCHANGED <<searchVars, mcall, parallelVars>>

\* matchItem on an object calls flattenObject(item, maxDepth) (index.ts:188, 319).
TFlattenObject ==
  /\ tpc = "filter" /\ tidx <= Len(tcall.items)
  /\ isFlattenable(tcall.items[tidx])
  /\ tstack' = <<Frame(tcall.items[tidx], TDepth)>>
  /\ tout' = <<>>
  /\ tpc' = "flatten"
  /\ UNCHANGED <<tcall, tidx, tresult>>
  /\ UNCHANGED <<searchVars, mcall, parallelVars>>

Top == tstack[Len(tstack)]

TopValues == ObjectValues(Top.value)

Advanced == [tstack EXCEPT ![Len(tstack)].next = @ + 1]

\* flatten(value, depth) returns [value] (index.ts:330).
TLeaf ==
  /\ tpc = "flatten" /\ Top.next <= Len(TopValues)
  /\ Top.depth <= 0 \/ ~isFlattenable(TopValues[Top.next])
  /\ tout' = Append(tout, TopValues[Top.next])
  /\ tstack' = Advanced
  /\ UNCHANGED <<tpc, tcall, tidx, tresult>>
  /\ UNCHANGED <<searchVars, mcall, parallelVars>>

\* flatten(value, depth) expands value (index.ts:331): one more frame, or a
\* RangeError when the call stack is used up.
TDescend ==
  /\ tpc = "flatten" /\ Top.next <= Len(TopValues)
  /\ ~(Top.depth <= 0 \/ ~isFlattenable(TopValues[Top.next]))
  /\ IF Len(tstack) < MaxStack
     THEN /\ tstack' = Append(Advanced, Frame(TopValues[Top.next], ChildDepth(Top.depth)))
          /\ tpc' = "flatten"
     ELSE /\ tstack' = tstack
          /\ tpc' = "overflow"
  /\ UNCHANGED <<tcall, tidx, tout, tresult>>
  /\ UNCHANGED <<searchVars, mcall, parallelVars>>

\* Every value of the top frame is flattened: the call returns.
TReturn ==
  /\ tpc = "flatten" /\ Top.next > Len(TopValues)
  /\ tstack' = SubSeq(tstack, 1, Len(tstack) - 1)
  /\ tpc' = IF Len(tstack) = 1 THEN "some" ELSE "flatten"
  /\ UNCHANGED <<tcall, tidx, tout, tresult>>
  /\ UNCHANGED <<searchVars, mcall, parallelVars>>

\* flattened.some(value => customMatch(value, term)) decides the item (index.ts:189).
TSome ==
  /\ tpc = "some"
  /\ tresult' = IF \E i \in 1..Len(tout) : defaultMatcher(tout[i], tcall.term)
                THEN Append(tresult, tcall.items[tidx]) ELSE tresult
  /\ tidx' = tidx + 1
  /\ tpc' = "filter"
  /\ UNCHANGED <<tcall, tstack, tout>>
  /\ UNCHANGED <<searchVars, mcall, parallelVars>>

\* filter has visited every item: searchData returns tresult.
TDone ==
  /\ tpc = "filter" /\ tidx > Len(tcall.items)
  /\ tpc' = "done"
  /\ UNCHANGED <<tcall, tidx, tstack, tout, tresult>>
  /\ UNCHANGED <<searchVars, mcall, parallelVars>>

TraversalStep ==
  TMatchPrimitive \/ TFlattenObject \/ TLeaf \/ TDescend \/ TReturn \/ TSome \/ TDone

TraversalNext == TBegin \/ TraversalStep

(* A call that has started keeps running: nothing preempts a synchronous   *)
(* call of a single-threaded program.                                      *)
TraversalSpec == Init /\ [][TraversalNext]_vars /\ WF_vars(TraversalStep)

-----------------------------------------------------------------------------
(* Direct calls of the exported defaultMatcher.                            *)

\* The longest text among the matcher's arguments.
MaxText == 2

Alphabet == {"a", "A", "b"}

RECURSIVE TextsOfLength(_)
TextsOfLength(n) ==
  IF n = 0 THEN {<<>>}
  ELSE {Append(s, c) : s \in TextsOfLength(n - 1), c \in Alphabet}

Texts == UNION {TextsOfLength(n) : n \in 0..MaxText}

MatcherValues ==
  {Str(s) : s \in Texts}
    \cup {Num(123), Num(0 - 5), Bool(TRUE), Bool(FALSE), Null, Undef, Ref(5), Ref(10)}

MatcherTerms ==
  {Str(s) : s \in Texts}
    \cup {Str(<<"2", "3">>), Str(<<"N", "U", "L", "L">>), Str(<<"t", "r", "u", "e">>),
          Str(<<"B", ",">>), Num(23), Null}

CallDefaultMatcher ==
  /\ ~mcall.made
  /\ \E value \in MatcherValues, term \in MatcherTerms :
       mcall' = [made |-> TRUE, value |-> value, term |-> term,
                 result |-> defaultMatcher(value, term)]
  /\ UNCHANGED <<searchVars, traversalVars, parallelVars>>

\* The caller has taken the result and may call again.
MatcherReturn ==
  /\ mcall.made
  /\ mcall' = NoCall
  /\ UNCHANGED <<searchVars, traversalVars, parallelVars>>

MatcherNext == CallDefaultMatcher \/ MatcherReturn

MatcherSpec == Init /\ [][MatcherNext]_vars

-----------------------------------------------------------------------------
(* Parallel calls taken step by step (index.ts:138-156).  The call slices  *)
(* the collection, constructs one promise per chunk, awaits Promise.all    *)
(* and so hands its own promise to the caller; a microtask later resumes   *)
(* the async function, which returns results.flat().  Between the return   *)
(* of a call and that microtask the caller's code runs on: it may change   *)
(* its collection and call searchData again.  Each call keeps, beside what *)
(* the code holds, the collection as it was at the call (data) and what    *)
(* searchData run as one step on that collection, from the path cache as   *)
(* it was at the call, resolves to (atCall).                               *)

\* How many calls the caller makes.
MaxCalls == 2

ParallelTerms == {Str(<<"u", "n", "d">>)}

ParallelCallOptions ==
  {Options(Set(l), Unset, Unset, c, Set(TRUE)) : l \in KeyLists \ {<<>>}, c \in CacheOptions}

\* What the caller may store into its collection.
Replacements == {Str(<<"A", "b">>)}

\* The mutant of ExecutorTurn that runs a promise's executor as a later job.
ExecutorTurnDeferred(job) == job.state = "awaiting"

\* new Promise(executor) calls its executor at once, during the call
\* (index.ts:147).
ExecutorTurn(job) == job.state = "running"

ExecutorsLeft(job) == Len(job.results) < Len(job.chunks)

\* searchData(coll, term, {keys, enablePathCache, parallel: true}) is called:
\* the chunks are sliced (index.ts:139-142).
ParallelCall ==
  /\ running = 0
  /\ Len(jobs) < MaxCalls
  /\ Len(coll) > ParallelThreshold
  /\ \E term \in ParallelTerms, options \in ParallelCallOptions :
       jobs' = Append(jobs, [term |-> term, options |-> options, data |-> coll,
                             atCall |-> searchData(Data("array", coll), term, options,
                                                   pathCache).value,
                             chunks |-> Chunks(Data("array", coll)),
                             results |-> <<>>, state |-> "running",
                             disturbed |-> FALSE, value |-> Undef])
  /\ running' = Len(jobs) + 1
  /\ UNCHANGED <<coll, log, pathCache>>
  /\ UNCHANGED <<pc, call, outcome, trace, chunks, traversalVars, mcall>>

\* The executor of the next chunk's promise runs chunk.filter (index.ts:148-150).
RunExecutor(j) ==
  /\ ExecutorTurn(jobs[j]) /\ ExecutorsLeft(jobs[j])
  /\ running = IF jobs[j].state = "running" THEN j ELSE 0
  /\ \E r \in {FilterRange(jobs[j].chunks[Len(jobs[j].results) + 1], 1,
                            Len(jobs[j].chunks[Len(jobs[j].results) + 1]),
                            jobs[j].term, jobs[j].options.keys,
                            OrDefault(jobs[j].options.customMatch, "default"),
                            OrDefault(jobs[j].options.maxDepth, DEFAULT_MAX_DEPTH),
                            OrDefault(jobs[j].options.enablePathCache, TRUE),
                            pathCache)} :
       /\ pathCache' = r.cache
       /\ jobs' = [jobs EXCEPT ![j].results = Append(@, List(r.out))]
  /\ log' = Append(log, [job |-> j, chunk |-> Len(jobs[j].results) + 1])
  /\ UNCHANGED <<coll, running>>
  /\ UNCHANGED <<pc, call, outcome, trace, chunks, traversalVars, mcall>>

\* await Promise.all(...) suspends the async function, and the call returns
\* its promise to the caller (index.ts:144-145).
AwaitAll(j) ==
  /\ running = j
  /\ jobs[j].state = "running"
  /\ ~(ExecutorTurn(jobs[j]) /\ ExecutorsLeft(jobs[j]))
  /\ jobs' = [jobs EXCEPT ![j].state = "awaiting"]
  /\ running' = 0
  /\ UNCHANGED <<coll, log, pathCache>>
  /\ UNCHANGED <<pc, call, outcome, trace, chunks, traversalVars, mcall>>

\* The microtask after the await: return results.flat() (index.ts:154), which
\* fulfils the promise of the call.
ResumeAfterAwait(j) ==
  /\ running = 0
  /\ jobs[j].state = "awaiting"
  /\ ~ExecutorsLeft(jobs[j])
  /\ jobs' = [jobs EXCEPT ![j].state = "fulfilled",
                          ![j].value = List(Flat(jobs[j].results, 1)),
                          ![j].disturbed = (coll # jobs[j].data /\ Len(jobs) > j)]
  /\ UNCHANGED <<coll, running, log, pathCache>>
  /\ UNCHANGED <<pc, call, outcome, trace, chunks, traversalVars, mcall>>

\* The caller stores another value into its collection: coll[0] = v.
MutateCollection ==
  /\ running = 0
  /\ Len(jobs) > 0
  /\ \E v \in Replacements \ {coll[1]} : coll' = [coll EXCEPT ![1] = v]
  /\ UNCHANGED <<jobs, running, log, pathCache>>
  /\ UNCHANGED <<pc, call, outcome, trace, chunks, traversalVars, mcall>>

ParallelNext ==
  \/ ParallelCall
  \/ \E j \in 1..Len(jobs) : RunExecutor(j)
  \/ \E j \in 1..Len(jobs) : AwaitAll(j)
  \/ \E j \in 1..Len(jobs) : ResumeAfterAwait(j)
  \/ MutateCollection

ParallelSpec == Init /\ [][ParallelNext]_vars

-----------------------------------------------------------------------------
(* What the properties below speak about.                                  *)

Range(seq) == {seq[i] : i \in 1..Len(seq)}

\* The call last made was given an array and has produced its result.
ArrayCall == call.made /\ call.data.kind = "array"

CallDepth    == OrDefault(call.options.maxDepth, DEFAULT_MAX_DEPTH)
CallMatcher  == OrDefault(call.options.customMatch, "default")
CallCaching  == OrDefault(call.options.enablePathCache, TRUE)
CallParallel == OrDefault(call.options.parallel, FALSE)
CallHasKeys  == call.options.keys.given /\ Len(call.options.keys.v) > 0

\* The same options with one field set otherwise.
WithCaching(options, b)  == [options EXCEPT !.enablePathCache = Set(b)]
WithParallel(options, b) == [options EXCEPT !.parallel = Set(b)]

\* The entries of the trace that resolve a path.
PathEvents == {i \in 1..Len(trace) : trace[i].how \in {"hit", "miss", "direct"}}

(* The values of an item by nesting level: level 1 holds the item's own    *)
(* property values, level k + 1 the property values (or elements) of the   *)
(* objects and arrays of level k.                                          *)
RECURSIVE LevelValues(_, _)
LevelValues(item, k) ==
  IF k <= 1 THEN Range(ObjectValues(item))
  ELSE UNION {Range(ObjectValues(v)) : v \in {w \in LevelValues(item, k - 1) : isFlattenable(w)}}

Leaves(values) == {v \in values : ~isFlattenable(v)}

(* The values flattened from an item within a depth budget: the leaves of  *)
(* levels 1 .. budget, and every value of level budget + 1 as it stands.   *)
FlattenedWithin(item, maxDepth) ==
  LET budget == IF maxDepth > 0 THEN maxDepth ELSE 0
  IN  UNION {Leaves(LevelValues(item, k)) : k \in 1..budget}
        \cup LevelValues(item, budget + 1)

-----------------------------------------------------------------------------
(* C1: cache reuse.  Every call that passes a keys list with the path      *)
(* cache enabled resolves, for each item and each path, the same value set *)
(* as path resolution without the cache, and returns the same result as    *)
(* the same call made with enablePathCache false.                          *)
CacheReuse ==
  (ArrayCall /\ CallHasKeys /\ CallCaching) =>
     /\ \A i \in PathEvents :
          Range(trace[i].values)
            = Range(getNestedValue(trace[i].item, trace[i].path, CallDepth))
     /\ outcome.value
          = searchData(call.data, call.term, WithCaching(call.options, FALSE),
                       call.cache).value

-----------------------------------------------------------------------------
(* Array expansion in a path.                                              *)
KeyK == <<"k">>
KeyF == <<"f">>

HoldsRecords(item) ==
  /\ IsHeapObj(item)
  /\ IsArray(GetProp(item, KeyK))
  /\ \A i \in 1..Len(Elems(GetProp(item, KeyK))) : IsHeapObj(Elems(GetProp(item, KeyK))[i])

(* C2: a path k[].f on a record whose key k holds an array of records      *)
(* resolves to the f values of the array's elements, in element order.     *)
ExpansionFlattensOneLevel ==
  ArrayCall =>
    \A i \in PathEvents :
      (trace[i].how # "hit" /\ trace[i].path = PathKF /\ HoldsRecords(trace[i].item))
        => trace[i].values = MapProp(Elems(GetProp(trace[i].item, KeyK)), KeyF)

-----------------------------------------------------------------------------
(* Parallel mode.                                                          *)
ChunkedCall ==
  ArrayCall /\ CallParallel /\ Len(call.data.items) > ParallelThreshold

(* C3: a parallel call on a collection longer than the threshold resolves  *)
(* to the very sequence the serial call returns on the same collection,    *)
(* term and options (from the same path cache).                            *)
ParallelEqualsSerial ==
  ChunkedCall =>
     /\ pc \in {"pending", "settled"}
     /\ outcome.kind = "promise" /\ outcome.settle = "fulfilled"
     /\ outcome.value
          = searchData(call.data, call.term, WithParallel(call.options, FALSE),
                       call.cache).value

\* A delivered parallel result that keeps some items and drops others.
ParallelWitness ==
  /\ ChunkedCall /\ pc = "settled"
  /\ Len(outcome.value.e) > 0
  /\ Len(outcome.value.e) < Len(call.data.items)

-----------------------------------------------------------------------------
(* Searches without keys.                                                  *)
PathlessCall == ArrayCall /\ ~CallHasKeys

AllObjects(items) == \A i \in 1..Len(items) : isFlattenable(items[i])

SomeFlattenedMatches(item) ==
  \E v \in FlattenedWithin(item, CallDepth) : customMatch(CallMatcher, v, call.term)

(* C4: without keys, searchData over a collection of objects returns       *)
(* exactly the items of which some value flattened within maxDepth         *)
(* satisfies the matcher, each once and in input order.                    *)
PathlessResultExact ==
  (PathlessCall /\ AllObjects(call.data.items)) =>
     outcome.value.e = SelectSeq(call.data.items, SomeFlattenedMatches)

\* A pathless search that keeps one item and drops another.
PathlessWitness ==
  /\ PathlessCall /\ AllObjects(call.data.items)
  /\ pc \in {"returned", "settled"}
  /\ \E i, j \in 1..Len(call.data.items) :
       /\ SomeFlattenedMatches(call.data.items[i])
       /\ ~SomeFlattenedMatches(call.data.items[j])

-----------------------------------------------------------------------------
(* maxDepth 1, no keys, a collection of objects nested three levels deep.  *)
ThreeLevels(item) == isFlattenable(item) /\ LevelValues(item, 3) # {}

ShallowCall ==
  /\ PathlessCall
  /\ call.options.maxDepth = Set(1)
  /\ Len(call.data.items) > 0
  /\ \A i \in 1..Len(call.data.items) : ThreeLevels(call.data.items[i])

Accepts(v) == customMatch(CallMatcher, v, call.term)

NoTopLevelLeafMatches ==
  \A i \in 1..Len(call.data.items) :
    \A v \in Leaves(LevelValues(call.data.items[i], 1)) : ~Accepts(v)

(* C5 as stated: when no top-level leaf matches the term the result is     *)
(* empty.                                                                  *)
ShallowIgnoresBelowTopLevel ==
  (ShallowCall /\ NoTopLevelLeafMatches) => outcome.value.e = <<>>

\* The values matchItem examines under maxDepth 1: the leaves of level 1 and
\* every value of level 2 as it stands, a nested object or array included.
ExaminedShallow(item) == Leaves(LevelValues(item, 1)) \cup LevelValues(item, 2)

KeptShallow(item) == \E v \in ExaminedShallow(item) : Accepts(v)

(* C5 as amended: the item is returned exactly when the matcher accepts a  *)
(* top-level leaf or a value of the second level as it stands; values of   *)
(* the third level and below are never examined, so when none of the       *)
(* former matches the result is empty even if a deeper leaf would match.   *)
ShallowExaminesTwoLevels ==
  ShallowCall =>
     /\ outcome.value.e = SelectSeq(call.data.items, KeptShallow)
     /\ ((\A i \in 1..Len(call.data.items) : ~KeptShallow(call.data.items[i]))
           => outcome.value.e = <<>>)

\* An empty result although a leaf of the third level would match the term.
ShallowWitness ==
  /\ ShallowCall /\ pc = "returned"
  /\ outcome.value.e = <<>>
  /\ \E i \in 1..Len(call.data.items) :
       \E v \in Leaves(LevelValues(call.data.items[i], 3)) : Accepts(v)

-----------------------------------------------------------------------------
(* Paths that fail on an item.                                             *)
HasMarker(path) == \E i \in 1..Len(Split(path)) : EndsWithMarker(Split(path)[i])

\* Reading the segments of a marker-free path one after the other.
RECURSIVE ReadFails(_, _, _)
ReadFails(current, segments, i) ==
  IF i > Len(segments) THEN FALSE
  ELSE LET next == GetProp(current, segments[i])
       IN  next = Throw \/ next = Undef \/ ReadFails(next, segments, i + 1)

TraversalFails(item, path) == ~HasMarker(path) /\ ReadFails(item, Split(path), 1)

(* C8: a path whose traversal fails on an item (a missing property, or a   *)
(* property read on null) yields no values for that item, so the matcher   *)
(* is not called for it, and searchData does not throw.                    *)
FailingPathYieldsNothing ==
  ArrayCall =>
     /\ pc # "threw"
     /\ \A i \in PathEvents :
          TraversalFails(trace[i].item, trace[i].path)
            => (trace[i].values = <<>> /\ trace[i].calls = 0 /\ ~trace[i].accepted)

-----------------------------------------------------------------------------
(* C9: a data argument that is not an array makes searchData throw a       *)
(* TypeError from the call itself, whatever the options; it never returns  *)
(* an array or a promise.                                                  *)
NonArrayFailsFast ==
  (call.made /\ call.data.kind # "array") =>
     (pc = "threw" /\ outcome.kind = "throw" /\ outcome.error = "TypeError")

-----------------------------------------------------------------------------
(* Items on a reference cycle.                                             *)

\* The item lies on a reference cycle: it is among its own nested values.
OnCycle(item) ==
  isFlattenable(item) /\ \E k \in 1..Len(Heap) : item \in LevelValues(item, k)

CyclicSearch ==
  /\ tcall.made
  /\ ~tcall.maxDepth.given
  /\ \E i \in 1..Len(tcall.items) : OnCycle(tcall.items[i])

(* C6: a pathless search with the default options over a collection that   *)
(* holds an object of a reference cycle ends, and returns a result.        *)
CyclicSearchEnds ==
  CyclicSearch ~> (tpc = "done")

\* The search of a collection with a cyclic item has returned.
CyclicSearchDone == CyclicSearch /\ tpc = "done"

-----------------------------------------------------------------------------
(* C7: while an item is flattened, no object is expanded twice along one   *)
(* traversal path: the values being expanded, from the item down to the    *)
(* value in hand, are pairwise different objects.                          *)
NoRevisitOnPath ==
  \A i, j \in 1..Len(tstack) : i < j => tstack[i].value # tstack[j].value

-----------------------------------------------------------------------------
(* The default matcher.                                                    *)

\* t occurs in s from some position on, character by character.
Occurs(t, s) ==
  \E start \in 1..(Len(s) + 1) :
    /\ start + Len(t) - 1 <= Len(s)
    /\ \A k \in 1..Len(t) : s[start + k - 1] = t[k]

(* C10: defaultMatcher(v, t) is true exactly when the lower-cased text of  *)
(* t occurs as a contiguous run in the lower-cased text of v, a value that *)
(* is no string being taken in its textual form (123 as "123", true as     *)
(* "true", null as "null").                                                *)
MatcherIsContainment ==
  /\ ToText(Num(123)) = <<"1", "2", "3">>
  /\ ToText(Bool(TRUE)) = <<"t", "r", "u", "e">>
  /\ ToText(Null) = <<"n", "u", "l", "l">>
  /\ mcall.made =>
       (mcall.result <=> Occurs(toLowerCase(ToText(mcall.term)),
                                toLowerCase(ToText(mcall.value))))

\* A match that needs the term lower-cased, on a value that is no string.
MatcherWitness ==
  /\ mcall.made /\ mcall.result
  /\ mcall.value = Null
  /\ mcall.term = Str(<<"N", "U", "L", "L">>)

-----------------------------------------------------------------------------
(* Chunking.                                                               *)

\* The least k with 4 * k >= n.
QuarterUp(n) == CHOOSE k \in 0..n : 4 * k >= n /\ (k = 0 \/ 4 * (k - 1) < n)

(* C11: a parallel call on more than 1000 items cuts the collection into   *)
(* exactly four slices, the first three of ceil(n / 4) items and the last  *)
(* of at least one and at most as many, which joined in order are the      *)
(* collection; any other call on an array cuts no slices and returns its   *)
(* array from the call itself.                                             *)
ChunkingExact ==
  ArrayCall =>
    IF CallParallel /\ Len(call.data.items) > ParallelThreshold
    THEN /\ Len(chunks) = 4
         /\ \A i \in 1..3 : Len(chunks[i]) = QuarterUp(Len(call.data.items))
         /\ Len(chunks[4]) \in 1..QuarterUp(Len(call.data.items))
         /\ chunks[1] \o chunks[2] \o chunks[3] \o chunks[4] = call.data.items
    ELSE /\ chunks = <<>>
         /\ pc = "returned"
         /\ outcome.kind = "array"

\* A delivered parallel call whose last slice is shorter than the others.
ChunkingWitness ==
  /\ ChunkedCall /\ pc = "settled"
  /\ Len(chunks) = 4
  /\ Len(chunks[4]) < Len(chunks[1])

-----------------------------------------------------------------------------
(* The path cache over the calls.                                          *)

\* The content of every entry is the one-element list of its own path.
CacheContentByPath == \A p \in DOMAIN pathCache : pathCache[p] = <<p>>

\* No entry is removed or changed by a step.
CacheKept ==
  \A p \in DOMAIN pathCache : p \in DOMAIN pathCache' /\ pathCache'[p] = pathCache[p]

\* An entry a step adds is the path of a cache miss of the call the step made.
CacheAddedOnMiss ==
  \A p \in DOMAIN pathCache' \ DOMAIN pathCache :
    /\ call'.made
    /\ OrDefault(call'.options.enablePathCache, TRUE)
    /\ \E i \in 1..Len(trace') : trace'[i].how = "miss" /\ trace'[i].path = p

(* A call with caching leaves every path it resolved in the cache, and its *)
(* resolution of a path is a miss exactly when the path was not in the     *)
(* cache at the call and has not been resolved earlier in the call; a call *)
(* without caching leaves the cache as it was.                             *)
CacheFilledLazily ==
  ArrayCall =>
    IF CallCaching
    THEN \A i \in PathEvents :
           /\ trace[i].path \in DOMAIN pathCache
           /\ trace[i].how = "miss"
                <=> /\ trace[i].path \notin DOMAIN call.cache
                    /\ \A j \in 1..(i - 1) : trace[j].path # trace[i].path
    ELSE pathCache = call.cache

(* C12: the path cache only grows.  An entry is added the first time its   *)
(* path is resolved with caching enabled, no step removes or changes an    *)
(* entry, and the content cached for a path is determined by the path      *)
(* alone.                                                                  *)
CacheOnlyGrows ==
  /\ [](CacheContentByPath /\ CacheFilledLazily)
  /\ [][CacheKept /\ CacheAddedOnMiss]_vars

\* A call that filled the empty cache on its first item and hit it on a later one.
CacheGrownWitness ==
  /\ ArrayCall /\ CallCaching
  /\ call.cache = EmptyCache
  /\ Cardinality(DOMAIN pathCache) > 1
  /\ \E i, j \in PathEvents :
       i < j /\ trace[i].path = trace[j].path
             /\ trace[i].how = "miss" /\ trace[j].how = "hit"

-----------------------------------------------------------------------------
(* Short-circuit of matchItem over a keys list.                            *)

CallKeys == call.options.keys.v

\* The matcher calls some makes on values: up to and with the first accepted.
CallsUntilAccepted(values) ==
  IF \E j \in 1..Len(values) : Accepts(values[j])
  THEN CHOOSE j \in 1..Len(values) :
         Accepts(values[j]) /\ \A h \in 1..(j - 1) : ~Accepts(values[h])
  ELSE Len(values)

\* The entry after the i-th, if any, belongs to the next item of the collection.
ItemEndsAt(i) ==
  i = Len(trace) \/ trace[i + 1].how = "item" \/ trace[i + 1].path = CallKeys[1]

(* C13: matching an item against a keys list tries the paths in list order *)
(* and the values of a path in resolution order, and stops at the first    *)
(* accepted value: no further matcher call is made for the item, and no    *)
(* later path of the list is resolved or put into the path cache for it.   *)
ShortCircuitOnFirstAccept ==
  (ArrayCall /\ CallHasKeys) =>
    /\ \A i \in PathEvents :
         /\ trace[i].calls = CallsUntilAccepted(trace[i].values)
         /\ trace[i].accepted => ItemEndsAt(i)
         /\ (~trace[i].accepted /\ IndexOf(CallKeys, trace[i].path) < Len(CallKeys))
              => /\ i < Len(trace)
                 /\ trace[i + 1].item = trace[i].item
                 /\ trace[i + 1].path = CallKeys[IndexOf(CallKeys, trace[i].path) + 1]
         /\ IndexOf(CallKeys, trace[i].path) > 1
              => /\ i > 1
                 /\ trace[i - 1].item = trace[i].item
                 /\ trace[i - 1].path = CallKeys[IndexOf(CallKeys, trace[i].path) - 1]
                 /\ ~trace[i - 1].accepted
    /\ DOMAIN pathCache
         = DOMAIN call.cache
             \cup (IF CallCaching THEN {trace[i].path : i \in PathEvents} ELSE {})

\* An item accepted on a path before the last of the list, and another item
\* matched after it.
ShortCircuitWitness ==
  /\ ArrayCall /\ CallHasKeys /\ pc = "returned"
  /\ \E i \in PathEvents :
       /\ trace[i].accepted
       /\ IndexOf(CallKeys, trace[i].path) < Len(CallKeys)
       /\ i < Len(trace)

-----------------------------------------------------------------------------
(* Parallel calls and what runs after them.                                *)

\* The entries of the log that belong to the j-th call.
LogOf(j) == {a \in 1..Len(log) : log[a].job = j}

(* C14: every chunk filter of a parallel call, with its matcher calls and  *)
(* its cache accesses, runs inside the call, chunk by chunk in input       *)
(* order, before the promise is handed to the caller; so the filters of    *)
(* two calls never interleave, and the value the promise is fulfilled with *)
(* is that of the collection and the cache as they were at the call,       *)
(* whatever the caller has changed since.                                  *)
ParallelWorkInsideCall ==
  /\ \A j \in 1..Len(jobs) :
       /\ jobs[j].state # "running" => ~ExecutorsLeft(jobs[j])
       /\ Cardinality(LogOf(j)) = Len(jobs[j].results)
       /\ \A a, b \in LogOf(j) :
            a < b => /\ log[a].chunk < log[b].chunk
                     /\ \A c \in a..b : log[c].job = j
       /\ jobs[j].state = "fulfilled" => jobs[j].value = jobs[j].atCall
  /\ \A a \in 1..Len(log) :
       log[a].chunk = Cardinality({b \in 1..a : log[b].job = log[a].job})

\* A promise fulfilled after the caller had changed the collection and made
\* another call, with a result that keeps some items and drops others.
ParallelDisturbedWitness ==
  \E j \in 1..Len(jobs) :
    /\ jobs[j].state = "fulfilled"
    /\ jobs[j].disturbed
    /\ Len(jobs[j].value.e) > 0
    /\ Len(jobs[j].value.e) < Len(jobs[j].data)

====
